---- MODULE Spec2Model ----
(***************************************************************************)
(* A model of the HTTP service of src/src/main.rs: seven stateless request *)
(* handlers (keypair generation, two token instruction builders, message   *)
(* signing and verification, two transfer instruction builders) and the    *)
(* response envelope they share.  Texts are sequences of one-character     *)
(* strings, byte strings are sequences of 0..255.  The base-58 and base-64 *)
(* codecs are computed digit by digit; the Ed25519 primitives and the      *)
(* program-address hash are idealised deterministic functions.             *)
(***************************************************************************)
EXTENDS Integers, Sequences, FiniteSets, TLC

VARIABLES
  last,   \* the request handled last and the response it was given
  before, \* the response the request before it was given, if that was the same
          \* instruction-builder request; None otherwise
  kp,     \* the key pair the caller holds: the data of the latest /keypair response
  sg,     \* the signature the caller holds: the data of the latest successful
          \* /message/sign response made with kp
  tasks   \* the requests in flight when requests are served concurrently: per
          \* task its position, its request and, once the handler ran, its response

vars == <<last, before, kp, sg, tasks>>

(***************************************************************************)
(* Bounds of the model.                                                    *)
(***************************************************************************)
NumSeeds == 2   \* distinct outcomes of the entropy source in Keypair::new()
NumAddrs == 2   \* distinct well-formed wallet addresses callers send
NumTasks == 2   \* requests the runtime serves at the same time

(***************************************************************************)
(* Fixed widths.                                                           *)
(***************************************************************************)
PUBKEY_BYTES == 32       \* Pubkey: [u8; 32]
MAX_BASE58_LEN == 44     \* longest base-58 text of 32 bytes
SECRET_BYTES == 64       \* bytes.len() == 64 in sign_message
SIGNATURE_BYTES == 64    \* bytes.len() == 64 in verify_message

None == [none |-> TRUE]

Zeros(n) == [i \in 1..n |-> 0]
Reverse(s) == [i \in 1..Len(s) |-> s[Len(s) + 1 - i]]

RECURSIVE LeadingCount(_, _, _)
LeadingCount(s, i, z) ==
  IF i <= Len(s) /\ s[i] = z THEN LeadingCount(s, i + 1, z) ELSE i - 1

(***************************************************************************)
(* str::trim().is_empty(): nothing but white space.                        *)
(***************************************************************************)
Whitespace == {" ", "\t", "\n", "\r"}

trim_is_empty(text) == \A i \in 1..Len(text) : text[i] \in Whitespace

(***************************************************************************)
(* bs58 (Bitcoin alphabet).  decode: for each character, output*58 + value *)
(* over a little-endian byte buffer; one zero byte per leading '1'; then   *)
(* reversed.  encode: the inverse long division.                           *)
(***************************************************************************)
B58Alphabet ==
  << "1","2","3","4","5","6","7","8","9",
     "A","B","C","D","E","F","G","H","J","K","L","M","N","P","Q",
     "R","S","T","U","V","W","X","Y","Z",
     "a","b","c","d","e","f","g","h","i","j","k","m","n","o","p",
     "q","r","s","t","u","v","w","x","y","z" >>

B58Chars == {B58Alphabet[i] : i \in 1..Len(B58Alphabet)}

B58Val == [c \in B58Chars |-> (CHOOSE i \in 1..Len(B58Alphabet) : B58Alphabet[i] = c) - 1]

RECURSIVE MulAdd(_, _, _, _)
MulAdd(out, i, base, val) ==
  IF i > Len(out)
    THEN IF val = 0 THEN out
         ELSE MulAdd(Append(out, val % 256), i + 1, base, val \div 256)
    ELSE LET v == val + out[i] * base
         IN  MulAdd([out EXCEPT ![i] = v % 256], i + 1, base, v \div 256)

RECURSIVE DecodeLoop(_, _, _)
DecodeLoop(text, i, out) ==
  IF i > Len(text) \/ Len(out) < 0 THEN out
  ELSE DecodeLoop(text, i + 1, MulAdd(out, 1, 58, B58Val[text[i]]))

bs58_decode(text) ==
  IF \E i \in 1..Len(text) : text[i] \notin B58Chars
    THEN [ok |-> FALSE, bytes |-> <<>>]
    ELSE [ok |-> TRUE,
          bytes |-> Reverse(DecodeLoop(text, 1, <<>>)
                            \o Zeros(LeadingCount(text, 1, "1")))]

RECURSIVE DivStep(_, _, _)
DivStep(out, i, carry) ==
  IF i > Len(out)
    THEN IF carry = 0 THEN out
         ELSE DivStep(Append(out, carry % 58), i + 1, carry \div 58)
    ELSE LET v == carry + out[i] * 256
         IN  DivStep([out EXCEPT ![i] = v % 58], i + 1, v \div 58)

RECURSIVE EncodeLoop(_, _, _)
EncodeLoop(bytes, i, out) ==
  IF i > Len(bytes) \/ Len(out) < 0 THEN out
  ELSE EncodeLoop(bytes, i + 1, DivStep(out, 1, bytes[i]))

bs58_encode(bytes) ==
  LET digits == Reverse(EncodeLoop(bytes, 1, <<>>)
                        \o Zeros(LeadingCount(bytes, 1, 0)))
  IN  [i \in 1..Len(digits) |-> B58Alphabet[digits[i] + 1]]

(***************************************************************************)
(* base64 (standard alphabet, '=' padding).  decode accepts canonical      *)
(* padded text only: a multiple of four characters, padding at the very    *)
(* end, unused trailing bits zero.                                         *)
(***************************************************************************)
B64Alphabet ==
  << "A","B","C","D","E","F","G","H","I","J","K","L","M","N","O","P",
     "Q","R","S","T","U","V","W","X","Y","Z",
     "a","b","c","d","e","f","g","h","i","j","k","l","m","n","o","p",
     "q","r","s","t","u","v","w","x","y","z",
     "0","1","2","3","4","5","6","7","8","9","+","/" >>

B64Chars == {B64Alphabet[i] : i \in 1..Len(B64Alphabet)}

B64Val == [c \in B64Chars |-> (CHOOSE i \in 1..Len(B64Alphabet) : B64Alphabet[i] = c) - 1]

base64_encode(bytes) ==
  LET n == Len(bytes)
      At(i) == IF i <= n THEN bytes[i] ELSE 0
      Sextet(g, k) ==          \* k-th sextet (0..3) of the g-th group of three bytes
        LET b1 == At(3 * g + 1)
            b2 == At(3 * g + 2)
            b3 == At(3 * g + 3)
        IN  CASE k = 0 -> b1 \div 4
              [] k = 1 -> (b1 % 4) * 16 + b2 \div 16
              [] k = 2 -> (b2 % 16) * 4 + b3 \div 64
              [] OTHER -> b3 % 64
      groups == (n + 2) \div 3
      Char(j) ==               \* j-th output character, from 0
        LET g == j \div 4
            k == j % 4
        IN  IF 3 * g + k > n THEN "=" ELSE B64Alphabet[Sextet(g, k) + 1]
  IN  [j \in 1..(4 * groups) |-> Char(j - 1)]

base64_decode(text) ==
  LET n == Len(text)
      pad == IF n >= 2 /\ text[n] = "=" /\ text[n - 1] = "=" THEN 2
             ELSE IF n >= 1 /\ text[n] = "=" THEN 1 ELSE 0
      Val(j) == IF j <= n - pad THEN B64Val[text[j]] ELSE 0
      outLen == (n \div 4) * 3 - pad
      Byte(i) ==               \* i-th output byte, from 0
        LET g == i \div 3
            k == i % 3
            s0 == Val(4 * g + 1)
            s1 == Val(4 * g + 2)
            s2 == Val(4 * g + 3)
            s3 == Val(4 * g + 4)
        IN  CASE k = 0 -> s0 * 4 + s1 \div 16
              [] k = 1 -> (s1 % 16) * 16 + s2 \div 4
              [] OTHER -> (s2 % 4) * 64 + s3
      trailingZero ==
        CASE pad = 2 -> Val(n - 2) % 16 = 0
          [] pad = 1 -> Val(n - 1) % 4 = 0
          [] OTHER -> TRUE
  IN  IF \/ n % 4 # 0
         \/ \E j \in 1..(n - pad) : text[j] \notin B64Chars
         \/ ~trailingZero
        THEN [ok |-> FALSE, bytes |-> <<>>]
        ELSE [ok |-> TRUE, bytes |-> [i \in 1..outLen |-> Byte(i - 1)]]

(***************************************************************************)
(* Pubkey::from_str: at most 44 characters, base-58, exactly 32 bytes.     *)
(* Pubkey::to_string: base-58 of the 32 bytes.                             *)
(***************************************************************************)
Pubkey_from_str_short(s) ==          \* the length cap off by one
  IF Len(s) >= MAX_BASE58_LEN THEN [ok |-> FALSE, bytes |-> <<>>]
  ELSE LET d == bs58_decode(s)
       IN  IF d.ok /\ Len(d.bytes) = PUBKEY_BYTES THEN d
           ELSE [ok |-> FALSE, bytes |-> <<>>]

Pubkey_from_str(s) ==
  IF Len(s) > MAX_BASE58_LEN THEN [ok |-> FALSE, bytes |-> <<>>]
  ELSE LET d == bs58_decode(s)
       IN  IF d.ok /\ Len(d.bytes) = PUBKEY_BYTES THEN d
           ELSE [ok |-> FALSE, bytes |-> <<>>]

Pubkey_to_string(bytes) == bs58_encode(bytes)

(***************************************************************************)
(* u64::to_le_bytes.                                                       *)
(***************************************************************************)
RECURSIVE to_le_bytes(_, _)
to_le_bytes(n, width) ==
  IF width = 0 THEN <<>> ELSE <<n % 256>> \o to_le_bytes(n \div 256, width - 1)

(***************************************************************************)
(* Program and sysvar addresses (declare_id! texts of the SDK crates).     *)
(***************************************************************************)
TOKEN_PROGRAM_TEXT ==
  << "T","o","k","e","n","k","e","g","Q","f","e","Z","y","i","N","w","A","J","b","N","b","G","K","P","F","X","C","W","u","B","v","f","9","S","s","6","2","3","V","Q","5","D","A" >>

SYSVAR_RENT_TEXT ==
  << "S","y","s","v","a","r","R","e","n","t","1","1","1","1","1","1","1","1","1","1","1","1","1","1","1","1","1","1","1","1","1","1","1","1","1","1","1","1","1","1","1","1","1" >>

ASSOCIATED_TOKEN_PROGRAM_TEXT ==
  << "A","T","o","k","e","n","G","P","v","b","d","G","V","x","r","1","b","2","h","v","Z","b","s","i","q","W","5","x","W","H","2","5","e","f","T","N","s","L","J","A","8","k","n","L" >>

spl_token_id == bs58_decode(TOKEN_PROGRAM_TEXT).bytes

sysvar_rent_id == bs58_decode(SYSVAR_RENT_TEXT).bytes

spl_associated_token_account_id == bs58_decode(ASSOCIATED_TOKEN_PROGRAM_TEXT).bytes

system_program_id == Zeros(PUBKEY_BYTES)

(***************************************************************************)
(* Ed25519, idealised.  A seed determines its public key; a signature is a *)
(* 64-byte string determined by the signing key pair and the message, and  *)
(* it verifies under exactly that public key and that message.  A 32-byte  *)
(* string need not be a curve point: y = 2 is none.                        *)
(***************************************************************************)
Seed(k) == <<k>> \o Zeros(PUBKEY_BYTES - 1)

derive_public(seed) == <<seed[1]>> \o Zeros(PUBKEY_BYTES - 2) \o <<seed[1]>>

OffCurve == <<2>> \o Zeros(PUBKEY_BYTES - 1)

is_curve_point(bytes) == bytes # OffCurve

Keypair_new(k) == [secret |-> Seed(k), public |-> derive_public(Seed(k))]

Keypair_to_bytes(keypair) == keypair.secret \o keypair.public

Keypair_from_bytes(bytes) ==
  IF Len(bytes) = SECRET_BYTES /\ is_curve_point(SubSeq(bytes, PUBKEY_BYTES + 1, SECRET_BYTES))
    THEN [ok |-> TRUE,
          keypair |-> [secret |-> SubSeq(bytes, 1, PUBKEY_BYTES),
                       public |-> SubSeq(bytes, PUBKEY_BYTES + 1, SECRET_BYTES)]]
    ELSE [ok |-> FALSE, keypair |-> None]

Keypair_sign_message(keypair, message) ==
  <<keypair.secret[1], keypair.public[1], Len(message)>>
    \o message \o Zeros(SIGNATURE_BYTES - 3 - Len(message))

Signature_try_from(bytes) ==
  IF Len(bytes) = SIGNATURE_BYTES THEN [ok |-> TRUE, bytes |-> bytes]
  ELSE [ok |-> FALSE, bytes |-> <<>>]

Signature_verify(signature, pubkey_bytes, message) ==
  LET signer == [secret |-> Seed(signature[1]), public |-> pubkey_bytes]
  IN  /\ is_curve_point(pubkey_bytes)
      /\ derive_public(signer.secret) = pubkey_bytes
      /\ Len(message) <= SIGNATURE_BYTES - 3
      /\ signature = Keypair_sign_message(signer, message)

(***************************************************************************)
(* String::as_bytes for the characters messages are written in.            *)
(***************************************************************************)
CharCode ==
  [c \in {" ", "e", "h", "l", "o", "x"} |->
     CASE c = " " -> 32 [] c = "e" -> 101 [] c = "h" -> 104
       [] c = "l" -> 108 [] c = "o" -> 111 [] OTHER -> 120]

as_bytes(text) == [i \in 1..Len(text) |-> CharCode[text[i]]]

(***************************************************************************)
(* get_associated_token_address: the program address derived from (wallet, *)
(* token program, mint) under the associated-token program; the hash is    *)
(* idealised as a deterministic mix of its inputs.                         *)
(***************************************************************************)
find_program_address(seeds, program_id) ==
  <<seeds[1][1], seeds[1][PUBKEY_BYTES], seeds[3][1], seeds[3][PUBKEY_BYTES],
    seeds[2][1], program_id[1]>> \o Zeros(PUBKEY_BYTES - 7) \o <<255>>

get_associated_token_address_wallet(wallet, mint) ==   \* no derivation: the wallet itself
  wallet

get_associated_token_address(wallet, mint) ==
  find_program_address(<<wallet, spl_token_id, mint>>, spl_associated_token_account_id)

(***************************************************************************)
(* What callers send.  Address fields: absent, blank, malformed, and       *)
(* NumAddrs well-formed wallet addresses; amounts and decimals at the ends *)
(* and inside their ranges; messages as in the sign/verify scenarios.      *)
(***************************************************************************)
Empty == <<>>

Blank == <<" ", " ">>

Malformed == <<"a", "b", "c">>        \* base-58 of three bytes

NotBase == <<"0", "O", "I", "l">>     \* the four characters base-58 leaves out

Addr(n) == <<100 + n>> \o Zeros(PUBKEY_BYTES - 2) \o <<n>>

Addrs == {Addr(n) : n \in 1..NumAddrs}

Seeds == 1..NumSeeds

PublicKeys == {derive_public(Seed(k)) : k \in Seeds}

Amounts == {0, 258}

Decimals == {0, 6, 255}

Hello == <<"h", "e", "l", "l", "o">>

Hellx == <<"h", "e", "l", "l", "x">>

Messages == {Empty, Blank, Hello, Hellx}

(***************************************************************************)
(* The codec results the handlers need, computed once per text.            *)
(***************************************************************************)
PubkeyBytes ==
  Addrs \cup PublicKeys \cup {OffCurve, spl_token_id, sysvar_rent_id, system_program_id}
        \cup {get_associated_token_address(w, m) : w \in Addrs, m \in Addrs}

PubkeyText == [b \in PubkeyBytes |-> Pubkey_to_string(b)]

KeypairBytes ==
  {Keypair_to_bytes(Keypair_new(k)) : k \in Seeds} \cup {Zeros(PUBKEY_BYTES) \o OffCurve}

KeypairText == [b \in KeypairBytes |-> bs58_encode(b)]

Base58Texts ==
  {Empty, Blank, Malformed, NotBase}
    \cup {PubkeyText[b] : b \in PubkeyBytes} \cup {KeypairText[b] : b \in KeypairBytes}

Base58Decoded == [s \in Base58Texts |-> bs58_decode(s)]

PubkeyParsed == [s \in Base58Texts |-> Pubkey_from_str(s)]

OffCurveSecret == Zeros(PUBKEY_BYTES) \o OffCurve   \* 64 bytes whose public half is no point

AddrTexts == {Empty, Blank, Malformed} \cup {PubkeyText[a] : a \in Addrs}

MintTexts == {Empty, Malformed, PubkeyText[Addr(1)]}

BadSymbols == <<"!", "!", "!", "!">>  \* four characters outside the base-64 alphabet

ShortSignature == <<"A", "A", "A", "A">>   \* base-64 of three bytes

(***************************************************************************)
(* The response envelope: enum ApiResponse<T>, serialised untagged, so the *)
(* JSON object has the fields of the variant that was built.               *)
(***************************************************************************)
Ok(value) == [ok |-> TRUE, val |-> value]

Err(error) == [ok |-> FALSE, err |-> error]

ApiResponse_Success(success, data) == [success |-> success, data |-> data]

ApiResponse_Error(success, error) == [success |-> success, error |-> error]

ApiResponse_from_flagged(result) ==   \* both arms built with success: true
  IF result.ok THEN ApiResponse_Success(TRUE, result.val)
  ELSE ApiResponse_Error(TRUE, result.err)

ApiResponse_from(result) ==
  IF result.ok THEN ApiResponse_Success(TRUE, result.val)
  ELSE ApiResponse_Error(FALSE, result.err)

(***************************************************************************)
(* Instructions of the SDK crates.                                         *)
(***************************************************************************)
AccountMeta_new(pubkey, is_signer) ==
  [pubkey |-> pubkey, is_signer |-> is_signer, is_writable |-> TRUE]

AccountMeta_new_readonly(pubkey, is_signer) ==
  [pubkey |-> pubkey, is_signer |-> is_signer, is_writable |-> FALSE]

check_program_account(token_program_id) == token_program_id = spl_token_id

INCORRECT_PROGRAM_ID == "incorrect program id for instruction"

initialize_mint(token_program_id, mint, mint_authority, freeze_authority, decimals) ==
  IF ~check_program_account(token_program_id) THEN Err(INCORRECT_PROGRAM_ID)
  ELSE Ok([program_id |-> token_program_id,
           accounts |-> << AccountMeta_new(mint, FALSE),
                           AccountMeta_new_readonly(sysvar_rent_id, FALSE) >>,
           data |-> <<0, decimals>> \o mint_authority
                      \o (IF freeze_authority = None THEN <<0>>
                          ELSE <<1>> \o freeze_authority)])

mint_to(token_program_id, mint, account, owner, signers, amount) ==
  IF ~check_program_account(token_program_id) THEN Err(INCORRECT_PROGRAM_ID)
  ELSE Ok([program_id |-> token_program_id,
           accounts |-> << AccountMeta_new(mint, FALSE),
                           AccountMeta_new(account, FALSE),
                           AccountMeta_new_readonly(owner, signers = <<>>) >>
                        \o [i \in 1..Len(signers) |-> AccountMeta_new_readonly(signers[i], TRUE)],
           data |-> <<7>> \o to_le_bytes(amount, 8)])

spl_transfer(token_program_id, source, destination, authority, signers, amount) ==
  IF ~check_program_account(token_program_id) THEN Err(INCORRECT_PROGRAM_ID)
  ELSE Ok([program_id |-> token_program_id,
           accounts |-> << AccountMeta_new(source, FALSE),
                           AccountMeta_new(destination, FALSE),
                           AccountMeta_new_readonly(authority, signers = <<>>) >>
                        \o [i \in 1..Len(signers) |-> AccountMeta_new_readonly(signers[i], TRUE)],
           data |-> <<3>> \o to_le_bytes(amount, 8)])

transfer(from_pubkey, to_pubkey, lamports) ==
  [program_id |-> system_program_id,
   accounts |-> << AccountMeta_new(from_pubkey, TRUE), AccountMeta_new(to_pubkey, FALSE) >>,
   data |-> <<2, 0, 0, 0>> \o to_le_bytes(lamports, 8)]

AccountMetaJson(meta) ==
  [pubkey |-> PubkeyText[meta.pubkey], is_signer |-> meta.is_signer,
   is_writable |-> meta.is_writable]

SendTokenAccount(meta) ==
  [pubkey |-> PubkeyText[meta.pubkey], isSigner |-> meta.is_signer,
   is_writable |-> meta.is_writable]

(***************************************************************************)
(* The handlers.  Each is the handler's chain of early returns, in order.  *)
(* The "Failed to build ..." errors stand for the format! texts that carry *)
(* the builder's error; the builders are always given spl_token::id(), so  *)
(* they do not fail.                                                       *)
(***************************************************************************)
generate_keypair(entropy) ==
  LET keypair == Keypair_new(entropy)
  IN  ApiResponse_from(Ok([pubkey |-> PubkeyText[keypair.public],
                           secret |-> KeypairText[Keypair_to_bytes(keypair)]]))

create_token_checked(req) ==          \* decimals above 9 refused
  LET mint == PubkeyParsed[req.mint]
      mint_authority == PubkeyParsed[req.mintAuthority]
      ix == initialize_mint(spl_token_id, mint.bytes, mint_authority.bytes, None, req.decimals)
  IN  IF ~mint.ok THEN ApiResponse_from(Err("Invalid mint pubkey"))
      ELSE IF ~mint_authority.ok THEN ApiResponse_from(Err("Invalid mint_authority pubkey"))
      ELSE IF req.decimals > 9 \/ ~ix.ok THEN ApiResponse_from(Err("Failed to build instruction"))
      ELSE ApiResponse_from(Ok(
             [program_id |-> PubkeyText[ix.val.program_id],
              accounts |-> [i \in 1..Len(ix.val.accounts) |-> AccountMetaJson(ix.val.accounts[i])],
              instruction_data |-> base64_encode(ix.val.data)]))

create_token(req) ==
  LET mint == PubkeyParsed[req.mint]
      mint_authority == PubkeyParsed[req.mintAuthority]
      ix == initialize_mint(spl_token_id, mint.bytes, mint_authority.bytes, None, req.decimals)
  IN  IF ~mint.ok THEN ApiResponse_from(Err("Invalid mint pubkey"))
      ELSE IF ~mint_authority.ok THEN ApiResponse_from(Err("Invalid mint_authority pubkey"))
      ELSE IF ~ix.ok THEN ApiResponse_from(Err("Failed to build instruction"))
      ELSE ApiResponse_from(Ok(
             [program_id |-> PubkeyText[ix.val.program_id],
              accounts |-> [i \in 1..Len(ix.val.accounts) |-> AccountMetaJson(ix.val.accounts[i])],
              instruction_data |-> base64_encode(ix.val.data)]))

mint_token(req) ==
  LET mint == PubkeyParsed[req.mint]
      destination == PubkeyParsed[req.destination]
      authority == PubkeyParsed[req.authority]
      ix == mint_to(spl_token_id, mint.bytes, destination.bytes, authority.bytes, <<>>, req.amount)
  IN  IF ~mint.ok THEN ApiResponse_from(Err("Invalid mint pubkey"))
      ELSE IF ~destination.ok THEN ApiResponse_from(Err("Invalid destination pubkey"))
      ELSE IF ~authority.ok THEN ApiResponse_from(Err("Invalid authority pubkey"))
      ELSE IF ~ix.ok THEN ApiResponse_from(Err("Failed to build mint instruction"))
      ELSE ApiResponse_from(Ok(
             [program_id |-> PubkeyText[ix.val.program_id],
              accounts |-> [i \in 1..Len(ix.val.accounts) |-> AccountMetaJson(ix.val.accounts[i])],
              instruction_data |-> base64_encode(ix.val.data)]))

secret_bytes_ok_seed(decoded) ==     \* the length of a seed taken for that of a key pair
  decoded.ok /\ Len(decoded.bytes) = PUBKEY_BYTES

secret_bytes_ok(decoded) == decoded.ok /\ Len(decoded.bytes) = SECRET_BYTES

encode_signature_base58(signature) == bs58_encode(signature)   \* the wrong codec

encode_signature(signature) == base64_encode(signature)

sign_message_shared(req) ==         \* the signature kept in a buffer all requests share
  LET decoded == Base58Decoded[req.secret]
      keypair == Keypair_from_bytes(decoded.bytes)
      signature == Keypair_sign_message(keypair.keypair, as_bytes(req.message))
  IN  IF last.op = "sign_message" /\ last.resp.success THEN last.resp
      ELSE IF trim_is_empty(req.message) \/ trim_is_empty(req.secret)
        THEN ApiResponse_Error(FALSE, "Missing required fields")
      ELSE IF ~secret_bytes_ok(decoded)
        THEN ApiResponse_Error(FALSE, "Invalid secret key")
      ELSE IF ~keypair.ok
        THEN ApiResponse_Error(FALSE, "Failed to construct keypair")
      ELSE ApiResponse_from(Ok(
             [signature |-> encode_signature(signature),
              public_key |-> PubkeyText[keypair.keypair.public],
              message |-> req.message]))

sign_message(req) ==
  LET decoded == Base58Decoded[req.secret]
      keypair == Keypair_from_bytes(decoded.bytes)
      signature == Keypair_sign_message(keypair.keypair, as_bytes(req.message))
  IN  IF trim_is_empty(req.message) \/ trim_is_empty(req.secret)
        THEN ApiResponse_Error(FALSE, "Missing required fields")
      ELSE IF ~secret_bytes_ok(decoded)
        THEN ApiResponse_Error(FALSE, "Invalid secret key")
      ELSE IF ~keypair.ok
        THEN ApiResponse_Error(FALSE, "Failed to construct keypair")
      ELSE ApiResponse_from(Ok(
             [signature |-> encode_signature(signature),
              public_key |-> PubkeyText[keypair.keypair.public],
              message |-> req.message]))

signature_bytes_ok(decoded) == decoded.ok /\ Len(decoded.bytes) = SIGNATURE_BYTES

verify_message_rejecting(req) ==     \* a signature that does not verify reported as an error
  LET pubkey == PubkeyParsed[req.pubkey]
      decoded == base64_decode(req.signature)
      signature == Signature_try_from(decoded.bytes)
      is_valid == Signature_verify(signature.bytes, pubkey.bytes, as_bytes(req.message))
  IN  IF trim_is_empty(req.message) \/ trim_is_empty(req.signature) \/ trim_is_empty(req.pubkey)
        THEN ApiResponse_Error(FALSE, "Missing required fields")
      ELSE IF ~pubkey.ok
        THEN ApiResponse_Error(FALSE, "Invalid public key")
      ELSE IF ~signature_bytes_ok(decoded)
        THEN ApiResponse_Error(FALSE, "Invalid signature format")
      ELSE IF ~signature.ok \/ ~is_valid
        THEN ApiResponse_Error(FALSE, "Failed to parse signature")
      ELSE ApiResponse_from(Ok(
             [valid |-> is_valid, message |-> req.message, pubkey |-> req.pubkey]))

verify_message_signature_first(req) ==   \* the signature decoded before the pubkey is parsed
  LET pubkey == PubkeyParsed[req.pubkey]
      decoded == base64_decode(req.signature)
      signature == Signature_try_from(decoded.bytes)
      is_valid == Signature_verify(signature.bytes, pubkey.bytes, as_bytes(req.message))
  IN  IF trim_is_empty(req.message) \/ trim_is_empty(req.signature) \/ trim_is_empty(req.pubkey)
        THEN ApiResponse_Error(FALSE, "Missing required fields")
      ELSE IF ~signature_bytes_ok(decoded)
        THEN ApiResponse_Error(FALSE, "Invalid signature format")
      ELSE IF ~pubkey.ok
        THEN ApiResponse_Error(FALSE, "Invalid public key")
      ELSE IF ~signature.ok
        THEN ApiResponse_Error(FALSE, "Failed to parse signature")
      ELSE ApiResponse_from(Ok(
             [valid |-> is_valid, message |-> req.message, pubkey |-> req.pubkey]))

verify_message(req) ==
  LET pubkey == PubkeyParsed[req.pubkey]
      decoded == base64_decode(req.signature)
      signature == Signature_try_from(decoded.bytes)
      is_valid == Signature_verify(signature.bytes, pubkey.bytes, as_bytes(req.message))
  IN  IF trim_is_empty(req.message) \/ trim_is_empty(req.signature) \/ trim_is_empty(req.pubkey)
        THEN ApiResponse_Error(FALSE, "Missing required fields")
      ELSE IF ~pubkey.ok
        THEN ApiResponse_Error(FALSE, "Invalid public key")
      ELSE IF ~signature_bytes_ok(decoded)
        THEN ApiResponse_Error(FALSE, "Invalid signature format")
      ELSE IF ~signature.ok
        THEN ApiResponse_Error(FALSE, "Failed to parse signature")
      ELSE ApiResponse_from(Ok(
             [valid |-> is_valid, message |-> req.message, pubkey |-> req.pubkey]))

lamports_is_zero_signed(req) == req.lamports < 0   \* never true of a u64

lamports_is_zero(req) == req.lamports = 0

send_sol_once(req) ==                \* a request seen just before answered differently
  LET from == PubkeyParsed[req.from]
      to == PubkeyParsed[req.to]
      instruction == transfer(from.bytes, to.bytes, req.lamports)
  IN  IF last.op = "send_sol" /\ last.req = req
        THEN ApiResponse_from(Err("Duplicate request"))
      ELSE IF lamports_is_zero(req) THEN ApiResponse_from(Err("Amount must be greater than 0"))
      ELSE IF ~from.ok THEN ApiResponse_from(Err("Invalid sender pubkey"))
      ELSE IF ~to.ok THEN ApiResponse_from(Err("Invalid recipient pubkey"))
      ELSE IF from.bytes = to.bytes
        THEN ApiResponse_from(Err("Sender and recipient cannot be the same"))
      ELSE ApiResponse_from(Ok(
             [program_id |-> PubkeyText[instruction.program_id],
              accounts |-> [i \in 1..Len(instruction.accounts) |->
                              PubkeyText[instruction.accounts[i].pubkey]],
              instruction_data |-> base64_encode(instruction.data)]))

send_sol(req) ==
  LET from == PubkeyParsed[req.from]
      to == PubkeyParsed[req.to]
      instruction == transfer(from.bytes, to.bytes, req.lamports)
  IN  IF lamports_is_zero(req) THEN ApiResponse_from(Err("Amount must be greater than 0"))
      ELSE IF ~from.ok THEN ApiResponse_from(Err("Invalid sender pubkey"))
      ELSE IF ~to.ok THEN ApiResponse_from(Err("Invalid recipient pubkey"))
      ELSE IF from.bytes = to.bytes
        THEN ApiResponse_from(Err("Sender and recipient cannot be the same"))
      ELSE ApiResponse_from(Ok(
             [program_id |-> PubkeyText[instruction.program_id],
              accounts |-> [i \in 1..Len(instruction.accounts) |->
                              PubkeyText[instruction.accounts[i].pubkey]],
              instruction_data |-> base64_encode(instruction.data)]))

owner_is_destination_unchecked(owner, destination_wallet) == FALSE   \* the comparison left out

owner_is_destination(owner, destination_wallet) == owner = destination_wallet

send_token_amount_last(req) ==      \* the amount looked at after the addresses
  LET mint == PubkeyParsed[req.mint]
      owner == PubkeyParsed[req.owner]
      destination_wallet == PubkeyParsed[req.destination]
      source_ata == get_associated_token_address(owner.bytes, mint.bytes)
      destination_ata == get_associated_token_address(destination_wallet.bytes, mint.bytes)
      ix == spl_transfer(spl_token_id, source_ata, destination_ata, owner.bytes, <<>>,
                         req.amount)
  IN  IF ~mint.ok THEN ApiResponse_from(Err("Invalid mint pubkey"))
      ELSE IF ~owner.ok THEN ApiResponse_from(Err("Invalid owner pubkey"))
      ELSE IF ~destination_wallet.ok THEN ApiResponse_from(Err("Invalid destination pubkey"))
      ELSE IF req.amount = 0 THEN ApiResponse_from(Err("Amount must be greater than 0"))
      ELSE IF owner_is_destination(owner.bytes, destination_wallet.bytes)
        THEN ApiResponse_from(Err("Owner and destination cannot be the same"))
      ELSE IF ~ix.ok THEN ApiResponse_from(Err("Failed to build transfer instruction"))
      ELSE ApiResponse_from(Ok(
             [program_id |-> PubkeyText[ix.val.program_id],
              accounts |-> [i \in 1..Len(ix.val.accounts) |-> SendTokenAccount(ix.val.accounts[i])],
              instruction_data |-> base64_encode(ix.val.data)]))

send_token(req) ==
  LET mint == PubkeyParsed[req.mint]
      owner == PubkeyParsed[req.owner]
      destination_wallet == PubkeyParsed[req.destination]
      source_ata == get_associated_token_address(owner.bytes, mint.bytes)
      destination_ata == get_associated_token_address(destination_wallet.bytes, mint.bytes)
      ix == spl_transfer(spl_token_id, source_ata, destination_ata, owner.bytes, <<>>,
                         req.amount)
  IN  IF req.amount = 0 THEN ApiResponse_from(Err("Amount must be greater than 0"))
      ELSE IF ~mint.ok THEN ApiResponse_from(Err("Invalid mint pubkey"))
      ELSE IF ~owner.ok THEN ApiResponse_from(Err("Invalid owner pubkey"))
      ELSE IF ~destination_wallet.ok THEN ApiResponse_from(Err("Invalid destination pubkey"))
      ELSE IF owner_is_destination(owner.bytes, destination_wallet.bytes)
        THEN ApiResponse_from(Err("Owner and destination cannot be the same"))
      ELSE IF ~ix.ok THEN ApiResponse_from(Err("Failed to build transfer instruction"))
      ELSE ApiResponse_from(Ok(
             [program_id |-> PubkeyText[ix.val.program_id],
              accounts |-> [i \in 1..Len(ix.val.accounts) |-> SendTokenAccount(ix.val.accounts[i])],
              instruction_data |-> base64_encode(ix.val.data)]))

(***************************************************************************)
(* The service as a state machine: each step handles one request.  The     *)
(* service keeps nothing between requests; kp and sg are what the caller   *)
(* keeps of earlier responses and may send back, and before remembers the  *)
(* previous response when an instruction-builder request is repeated.      *)
(***************************************************************************)
Handled(op, req, resp) == [op |-> op, req |-> req, resp |-> resp]

Repeated(op, req) == IF last.op = op /\ last.req = req THEN last.resp ELSE None

Tasks == 1..NumTasks

Idle == [pc |-> "idle", op |-> "none", req |-> None, resp |-> None]

Init ==
  /\ last = Handled("none", None, None)
  /\ before = None
  /\ kp = None
  /\ sg = None
  /\ tasks = [t \in Tasks |-> Idle]

GenerateKeypair ==
  \E entropy \in Seeds :
    LET resp == generate_keypair(entropy)
    IN  /\ last' = Handled("generate_keypair", None, resp)
        /\ kp' = resp.data
        /\ sg' = None
        /\ before' = None
        /\ UNCHANGED tasks

CreateToken ==
  \E mintAuthority \in AddrTexts, mint \in AddrTexts, decimals \in Decimals :
    LET req == [mintAuthority |-> mintAuthority, mint |-> mint, decimals |-> decimals]
    IN  /\ last' = Handled("create_token", req, create_token(req))
        /\ before' = Repeated("create_token", req)
        /\ UNCHANGED <<kp, sg, tasks>>

MintToken ==
  \E mint \in MintTexts, destination \in AddrTexts, authority \in MintTexts,
     amount \in Amounts :
    LET req == [mint |-> mint, destination |-> destination, authority |-> authority,
                amount |-> amount]
    IN  /\ last' = Handled("mint_token", req, mint_token(req))
        /\ before' = Repeated("mint_token", req)
        /\ UNCHANGED <<kp, sg, tasks>>

SecretsHeld ==
  {Empty, Blank, Malformed, NotBase, KeypairText[OffCurveSecret]}
    \cup (IF kp = None THEN {} ELSE {kp.secret})

SignMessage ==
  \E message \in Messages, secret \in SecretsHeld :
    LET req == [message |-> message, secret |-> secret]
        resp == sign_message(req)
    IN  /\ last' = Handled("sign_message", req, resp)
        /\ sg' = IF resp.success THEN resp.data ELSE sg
        /\ before' = None
        /\ UNCHANGED <<kp, tasks>>

SignaturesHeld ==
  {Empty, BadSymbols, ShortSignature} \cup (IF sg = None THEN {} ELSE {sg.signature})

PubkeysHeld ==
  {Empty, Malformed, PubkeyText[Addr(1)], PubkeyText[OffCurve]}
    \cup {PubkeyText[p] : p \in PublicKeys}

VerifyMessage ==
  \E message \in Messages, signature \in SignaturesHeld, pubkey \in PubkeysHeld :
    LET req == [message |-> message, signature |-> signature, pubkey |-> pubkey]
    IN  /\ last' = Handled("verify_message", req, verify_message(req))
        /\ before' = None
        /\ UNCHANGED <<kp, sg, tasks>>

SendSol ==
  \E from \in AddrTexts, to \in AddrTexts, lamports \in Amounts :
    LET req == [from |-> from, to |-> to, lamports |-> lamports]
    IN  /\ last' = Handled("send_sol", req, send_sol(req))
        /\ before' = Repeated("send_sol", req)
        /\ UNCHANGED <<kp, sg, tasks>>

SendToken ==
  \E destination \in AddrTexts, mint \in MintTexts, owner \in AddrTexts,
     amount \in Amounts :
    LET req == [destination |-> destination, mint |-> mint, owner |-> owner,
                amount |-> amount]
    IN  /\ last' = Handled("send_token", req, send_token(req))
        /\ before' = Repeated("send_token", req)
        /\ UNCHANGED <<kp, sg, tasks>>

Next ==
  \/ GenerateKeypair
  \/ CreateToken
  \/ MintToken
  \/ SignMessage
  \/ VerifyMessage
  \/ SendSol
  \/ SendToken

Spec == Init /\ [][Next]_vars

(***************************************************************************)
(* The instruction builders alone, and the key and message operations      *)
(* alone: the handlers share nothing, so each family is also checked apart.*)
(***************************************************************************)
NextBuild == CreateToken \/ MintToken \/ SendSol \/ SendToken

SpecBuild == Init /\ [][NextBuild]_vars

NextMsg == GenerateKeypair \/ SignMessage \/ VerifyMessage

SpecMsg == Init /\ [][NextMsg]_vars

(***************************************************************************)
(* create_token alone, over the whole range of its decimals field (u8) and *)
(* well-formed addresses.                                                  *)
(***************************************************************************)
U8 == 0..255

CreateTokenAnyDecimals ==
  \E mintAuthority \in {text \in AddrTexts : PubkeyParsed[text].ok},
     mint \in {text \in MintTexts : PubkeyParsed[text].ok}, decimals \in U8 :
    LET req == [mintAuthority |-> mintAuthority, mint |-> mint, decimals |-> decimals]
    IN  /\ last' = Handled("create_token", req, create_token(req))
        /\ before' = Repeated("create_token", req)
        /\ UNCHANGED <<kp, sg, tasks>>

SpecDecimals == Init /\ [][CreateTokenAnyDecimals]_vars

(***************************************************************************)
(* The service under concurrent requests.  The runtime (#[tokio::main])    *)
(* runs each request as a task of its own: the request body is extracted,  *)
(* the handler runs on it, the response is written.  The steps of          *)
(* different tasks interleave in any order.  A handler has only its        *)
(* request to work on: the router carries no state and the program has no  *)
(* statics.  last is the response written most recently.                   *)
(***************************************************************************)
Dispatch(op, req) ==
  CASE op = "create_token" -> create_token(req)
    [] op = "mint_token" -> mint_token(req)
    [] op = "sign_message" -> sign_message(req)
    [] op = "verify_message" -> verify_message(req)
    [] op = "send_sol" -> send_sol(req)
    [] op = "send_token" -> send_token(req)

HelloSigned == encode_signature(Keypair_sign_message(Keypair_new(1), as_bytes(Hello)))

ConcurrentRequests ==
  LET wallet == PubkeyText[Addr(1)]
      other == PubkeyText[Addr(NumAddrs)]
      secret == KeypairText[Keypair_to_bytes(Keypair_new(1))]
      pubkey == PubkeyText[Keypair_new(1).public]
  IN  {[op |-> "create_token",
        req |-> [mintAuthority |-> other, mint |-> wallet, decimals |-> 6]],
       [op |-> "mint_token",
        req |-> [mint |-> wallet, destination |-> other, authority |-> wallet,
                 amount |-> 258]],
       [op |-> "sign_message", req |-> [message |-> Hello, secret |-> secret]],
       [op |-> "sign_message", req |-> [message |-> Hellx, secret |-> secret]],
       [op |-> "verify_message",
        req |-> [message |-> Hello, signature |-> HelloSigned, pubkey |-> pubkey]],
       [op |-> "verify_message",
        req |-> [message |-> Hellx, signature |-> HelloSigned, pubkey |-> pubkey]],
       [op |-> "send_sol", req |-> [from |-> wallet, to |-> other, lamports |-> 258]],
       [op |-> "send_sol", req |-> [from |-> wallet, to |-> Malformed, lamports |-> 258]],
       [op |-> "send_token",
        req |-> [destination |-> other, mint |-> wallet, owner |-> wallet,
                 amount |-> 258]]}

Accept(t) ==
  /\ tasks[t].pc = "idle"
  /\ \E r \in ConcurrentRequests :
       tasks' = [tasks EXCEPT ![t] = [pc |-> "accepted", op |-> r.op, req |-> r.req,
                                      resp |-> None]]
  /\ UNCHANGED <<last, before, kp, sg>>

Handle(t) ==
  /\ tasks[t].pc = "accepted"
  /\ tasks' = [tasks EXCEPT ![t].pc = "handled",
                            ![t].resp = Dispatch(tasks[t].op, tasks[t].req)]
  /\ UNCHANGED <<last, before, kp, sg>>

Reply(t) ==
  /\ tasks[t].pc = "handled"
  /\ last' = Handled(tasks[t].op, tasks[t].req, tasks[t].resp)
  /\ tasks' = [tasks EXCEPT ![t] = Idle]
  /\ UNCHANGED <<before, kp, sg>>

NextConcurrent == \E t \in Tasks : Accept(t) \/ Handle(t) \/ Reply(t)

SpecConcurrent == Init /\ [][NextConcurrent]_vars

(***************************************************************************)
(* Properties.                                                             *)
(***************************************************************************)
Rejected(error) ==
  /\ last.resp.success = FALSE
  /\ last.resp.error = error

Succeeded == last.resp.success = TRUE

MISSING_FIELD == "Missing required fields"

AMOUNT_ZERO == "Amount must be greater than 0"

WellFormed(text) == PubkeyParsed[text].ok

SameAddress(s, t) == PubkeyParsed[s].bytes = PubkeyParsed[t].bytes

\* C1 (as stated): a send_sol or send_token request with an empty required
\* text field and a zero amount is rejected with the missing-field error,
\* not with the amount error.
C1_MissingFieldBeforeAmount ==
  /\ (/\ last.op = "send_sol"
      /\ last.req.lamports = 0
      /\ trim_is_empty(last.req.from) \/ trim_is_empty(last.req.to))
       => Rejected(MISSING_FIELD)
  /\ (/\ last.op = "send_token"
      /\ last.req.amount = 0
      /\ \/ trim_is_empty(last.req.destination)
         \/ trim_is_empty(last.req.mint)
         \/ trim_is_empty(last.req.owner))
       => Rejected(MISSING_FIELD)

RequiredTexts ==
  CASE last.op = "create_token" -> {last.req.mintAuthority, last.req.mint}
    [] last.op = "mint_token" -> {last.req.mint, last.req.destination, last.req.authority}
    [] last.op = "sign_message" -> {last.req.message, last.req.secret}
    [] last.op = "verify_message" -> {last.req.message, last.req.signature, last.req.pubkey}
    [] last.op = "send_sol" -> {last.req.from, last.req.to}
    [] last.op = "send_token" -> {last.req.destination, last.req.mint, last.req.owner}
    [] OTHER -> {}

\* C2 (as stated): in every operation with required text fields, a request
\* in which one of them is empty or blank is rejected with "Missing required
\* fields".
C2_EmptyFieldIsMissingField ==
  (\E text \in RequiredTexts : trim_is_empty(text)) => Rejected(MISSING_FIELD)

\* C3: a transfer request with amount 0 and valid, distinct addresses is
\* rejected with the amount error, and no transfer request with amount 0
\* gets an instruction.
C3_ZeroAmountRejected ==
  /\ (/\ last.op = "send_sol"
      /\ last.req.lamports = 0
      /\ WellFormed(last.req.from) /\ WellFormed(last.req.to)
      /\ ~SameAddress(last.req.from, last.req.to))
       => Rejected(AMOUNT_ZERO)
  /\ (/\ last.op = "send_token"
      /\ last.req.amount = 0
      /\ WellFormed(last.req.mint)
      /\ WellFormed(last.req.owner) /\ WellFormed(last.req.destination)
      /\ ~SameAddress(last.req.owner, last.req.destination))
       => Rejected(AMOUNT_ZERO)
  /\ (last.op = "send_sol" /\ Succeeded) => last.req.lamports > 0
  /\ (last.op = "send_token" /\ Succeeded) => last.req.amount > 0

C3_Witness ==
  /\ last.op = "send_sol"
  /\ last.req.lamports = 0
  /\ WellFormed(last.req.from) /\ WellFormed(last.req.to)
  /\ ~SameAddress(last.req.from, last.req.to)
  /\ Rejected(AMOUNT_ZERO)

\* C4: a transfer request with a positive amount and well-formed addresses
\* whose source and destination decode to the same 32 bytes is rejected with
\* the same-address error, and a transfer succeeds only when they differ.
C4_SameAddressRejected ==
  /\ (/\ last.op = "send_sol"
      /\ last.req.lamports > 0
      /\ WellFormed(last.req.from) /\ WellFormed(last.req.to)
      /\ SameAddress(last.req.from, last.req.to))
       => Rejected("Sender and recipient cannot be the same")
  /\ (/\ last.op = "send_token"
      /\ last.req.amount > 0
      /\ WellFormed(last.req.mint)
      /\ WellFormed(last.req.owner) /\ WellFormed(last.req.destination)
      /\ SameAddress(last.req.owner, last.req.destination))
       => Rejected("Owner and destination cannot be the same")
  /\ (last.op = "send_sol" /\ Succeeded)
       => ~SameAddress(last.req.from, last.req.to)
  /\ (last.op = "send_token" /\ Succeeded)
       => ~SameAddress(last.req.owner, last.req.destination)

C4_Witness ==
  /\ last.op = "send_token"
  /\ last.req.amount > 0
  /\ WellFormed(last.req.mint)
  /\ WellFormed(last.req.owner) /\ WellFormed(last.req.destination)
  /\ SameAddress(last.req.owner, last.req.destination)
  /\ Rejected("Owner and destination cannot be the same")

\* C5: signing a non-blank message with the secret of a generated key pair
\* succeeds, and verifying that message with the signature and public key
\* the signing returned succeeds with valid = true.
C5_SignVerifyRoundTrip ==
  /\ (/\ last.op = "sign_message"
      /\ kp # None
      /\ last.req.secret = kp.secret
      /\ ~trim_is_empty(last.req.message))
       => /\ Succeeded
          /\ sg = last.resp.data
          /\ last.resp.data.public_key = kp.pubkey
  /\ (/\ last.op = "verify_message"
      /\ sg # None
      /\ last.req.message = sg.message
      /\ last.req.signature = sg.signature
      /\ last.req.pubkey = sg.public_key)
       => /\ Succeeded
          /\ last.resp.data.valid = TRUE

C5_Witness ==
  /\ last.op = "verify_message"
  /\ sg # None
  /\ last.req.message = sg.message
  /\ last.req.signature = sg.signature
  /\ last.req.pubkey = sg.public_key
  /\ last.req.pubkey = kp.pubkey
  /\ Succeeded
  /\ last.resp.data.valid = TRUE

\* C6: verifying a signature obtained from sign_message with another
\* non-blank message, or with another well-formed public key, succeeds with
\* valid = false: neither valid = true nor an error.
C6_TamperGivesInvalid ==
  (/\ last.op = "verify_message"
   /\ sg # None
   /\ last.req.signature = sg.signature
   /\ ~trim_is_empty(last.req.message)
   /\ WellFormed(last.req.pubkey)
   /\ \/ last.req.message # sg.message
      \/ ~SameAddress(last.req.pubkey, sg.public_key))
    => /\ Succeeded
       /\ last.resp.data.valid = FALSE

C6_Witness ==
  /\ last.op = "verify_message"
  /\ sg # None
  /\ last.req.signature = sg.signature
  /\ last.req.pubkey = sg.public_key
  /\ sg.message = Hello
  /\ last.req.message = Hellx
  /\ Succeeded
  /\ last.resp.data.valid = FALSE

DecodesTo(decoded, length) == decoded.ok /\ Len(decoded.bytes) = length

\* C7: a verify_message request with non-blank fields, a pubkey that decodes
\* to 32 bytes and a signature that decodes to 64 bytes succeeds with a
\* boolean valid; a signature error means the signature does not decode to
\* 64 bytes, and "Failed to parse signature" is never the outcome.
C7_VerifyTotalOnWellFormed ==
  last.op = "verify_message" =>
    /\ (/\ \A text \in RequiredTexts : ~trim_is_empty(text)
        /\ DecodesTo(Base58Decoded[last.req.pubkey], PUBKEY_BYTES)
        /\ DecodesTo(base64_decode(last.req.signature), SIGNATURE_BYTES))
         => /\ Succeeded
            /\ last.resp.data.valid \in BOOLEAN
    /\ Rejected("Invalid signature format")
         => ~DecodesTo(base64_decode(last.req.signature), SIGNATURE_BYTES)
    /\ ~Rejected("Failed to parse signature")

C7_Witness ==
  /\ last.op = "verify_message"
  /\ DecodesTo(Base58Decoded[last.req.pubkey], PUBKEY_BYTES)
  /\ Len(last.req.pubkey) = MAX_BASE58_LEN
  /\ DecodesTo(base64_decode(last.req.signature), SIGNATURE_BYTES)
  /\ Succeeded
  /\ last.resp.data.valid = FALSE

SecretDecoded == Base58Decoded[last.req.secret]

\* C8 (as stated): a sign_message request with a non-blank message and a
\* secret that decodes to 64 bytes succeeds, and every error of sign_message
\* is "Missing required fields" or "Invalid secret key".
C8_SignTotalOn64Bytes ==
  last.op = "sign_message" =>
    /\ (~trim_is_empty(last.req.message) /\ DecodesTo(SecretDecoded, SECRET_BYTES))
         => Succeeded
    /\ ~Succeeded => last.resp.error \in {MISSING_FIELD, "Invalid secret key"}

\* C8 (amended): a sign_message request with a non-blank message and a
\* secret that decodes to 64 bytes from which a key pair can be constructed
\* succeeds with a signature; 64 bytes that form no key pair are rejected
\* with "Failed to construct keypair"; every error of sign_message is one of
\* "Missing required fields", "Invalid secret key", "Failed to construct
\* keypair".
C8_SignTotalOnKeypairs ==
  last.op = "sign_message" =>
    /\ (/\ ~trim_is_empty(last.req.message)
        /\ DecodesTo(SecretDecoded, SECRET_BYTES)
        /\ Keypair_from_bytes(SecretDecoded.bytes).ok)
         => /\ Succeeded
            /\ DecodesTo(base64_decode(last.resp.data.signature), SIGNATURE_BYTES)
    /\ (/\ ~trim_is_empty(last.req.message)
        /\ DecodesTo(SecretDecoded, SECRET_BYTES)
        /\ ~Keypair_from_bytes(SecretDecoded.bytes).ok)
         => Rejected("Failed to construct keypair")
    /\ ~Succeeded
         => last.resp.error \in {MISSING_FIELD, "Invalid secret key",
                                 "Failed to construct keypair"}

C8_Witness ==
  /\ last.op = "sign_message"
  /\ ~trim_is_empty(last.req.message)
  /\ DecodesTo(SecretDecoded, SECRET_BYTES)
  /\ Keypair_from_bytes(SecretDecoded.bytes).ok
  /\ Succeeded

Operations ==
  {"generate_keypair", "create_token", "mint_token", "sign_message", "verify_message",
   "send_sol", "send_token"}

\* C9: every response of every operation is either {success: true, data}
\* or {success: false, error}: data goes with success = true and nothing
\* else, error with success = false and nothing else.
C9_Envelope ==
  last.op \in Operations =>
    \/ DOMAIN last.resp = {"success", "data"} /\ last.resp.success = TRUE
    \/ DOMAIN last.resp = {"success", "error"} /\ last.resp.success = FALSE

C9_Witness ==
  /\ last.op = "sign_message"
  /\ DOMAIN last.resp = {"success", "error"}
  /\ last.resp.success = FALSE
  /\ sg # None

AccountsReturned == last.resp.data.accounts

\* C11 (as stated): every account record of a successful send_token response
\* has exactly the keys pubkey, isSigner and isWritable, and every account
\* record of a successful create_token or mint_token response has exactly the
\* keys pubkey, is_signer and is_writable.
C11_AccountKeys ==
  /\ (last.op = "send_token" /\ Succeeded)
       => \A i \in DOMAIN AccountsReturned :
            DOMAIN AccountsReturned[i] = {"pubkey", "isSigner", "isWritable"}
  /\ (last.op \in {"create_token", "mint_token"} /\ Succeeded)
       => \A i \in DOMAIN AccountsReturned :
            DOMAIN AccountsReturned[i] = {"pubkey", "is_signer", "is_writable"}

AccountPubkeys == [i \in DOMAIN AccountsReturned |-> AccountsReturned[i].pubkey]

DerivedAccount(wallet, mint) ==
  find_program_address(<<PubkeyParsed[wallet].bytes, spl_token_id, PubkeyParsed[mint].bytes>>,
                       spl_associated_token_account_id)

MintInitialization ==
  <<0, last.req.decimals>> \o PubkeyParsed[last.req.mintAuthority].bytes \o <<0>>

\* C13: a create_token request with two well-formed addresses succeeds for
\* every decimals value, and its instruction_data decodes to the
\* mint-initialization tag, the request's decimals, the 32 bytes of the mint
\* authority and a freeze-authority flag of "not present".
C13_DecimalsUnchecked ==
  (/\ last.op = "create_token"
   /\ WellFormed(last.req.mint) /\ WellFormed(last.req.mintAuthority))
    => /\ Succeeded
       /\ base64_decode(last.resp.data.instruction_data)
            = [ok |-> TRUE, bytes |-> MintInitialization]

C13_Witness ==
  /\ last.op = "create_token"
  /\ last.req.mint = last.req.mintAuthority
  /\ WellFormed(last.req.mint)
  /\ last.req.decimals = 255
  /\ Succeeded
  /\ base64_decode(last.resp.data.instruction_data).ok
  /\ base64_decode(last.resp.data.instruction_data).bytes[2] = 255

MalformedAddress(text) == text # Empty /\ ~WellFormed(text)

INVALID_ADDRESS ==
  {"Invalid sender pubkey", "Invalid recipient pubkey", "Invalid mint pubkey",
   "Invalid owner pubkey", "Invalid destination pubkey"}

\* C15: a send_sol or send_token request with amount 0 and a malformed,
\* non-empty address is rejected with the amount error, and a send_sol or
\* send_token request rejected with an invalid-address error has a positive
\* amount.
C15_AmountBeforeAddresses ==
  /\ (/\ last.op = "send_sol"
      /\ last.req.lamports = 0
      /\ \E text \in {last.req.from, last.req.to} : MalformedAddress(text))
       => Rejected(AMOUNT_ZERO)
  /\ (/\ last.op = "send_token"
      /\ last.req.amount = 0
      /\ \E text \in {last.req.mint, last.req.owner, last.req.destination} :
           MalformedAddress(text))
       => Rejected(AMOUNT_ZERO)
  /\ (last.op = "send_sol" /\ ~Succeeded /\ last.resp.error \in INVALID_ADDRESS)
       => last.req.lamports > 0
  /\ (last.op = "send_token" /\ ~Succeeded /\ last.resp.error \in INVALID_ADDRESS)
       => last.req.amount > 0

C15_Witness ==
  /\ last.op = "send_token"
  /\ last.req.amount = 0
  /\ MalformedAddress(last.req.mint)
  /\ MalformedAddress(last.req.owner)
  /\ WellFormed(last.req.destination)
  /\ Rejected(AMOUNT_ZERO)

Field(text, error) == [text |-> text, error |-> error]

AddressFields ==                      \* address fields of the request and their errors, in order
  CASE last.op = "create_token" ->
         << Field(last.req.mint, "Invalid mint pubkey"),
            Field(last.req.mintAuthority, "Invalid mint_authority pubkey") >>
    [] last.op = "mint_token" ->
         << Field(last.req.mint, "Invalid mint pubkey"),
            Field(last.req.destination, "Invalid destination pubkey"),
            Field(last.req.authority, "Invalid authority pubkey") >>
    [] last.op = "send_sol" /\ last.req.lamports > 0 ->
         << Field(last.req.from, "Invalid sender pubkey"),
            Field(last.req.to, "Invalid recipient pubkey") >>
    [] last.op = "send_token" /\ last.req.amount > 0 ->
         << Field(last.req.mint, "Invalid mint pubkey"),
            Field(last.req.owner, "Invalid owner pubkey"),
            Field(last.req.destination, "Invalid destination pubkey") >>
    [] last.op = "verify_message" /\ (\A text \in RequiredTexts : ~trim_is_empty(text)) ->
         << Field(last.req.pubkey, "Invalid public key") >>
    [] OTHER -> << >>

SAME_ADDRESS ==
  {"Sender and recipient cannot be the same", "Owner and destination cannot be the same"}

\* C16: a request with malformed address fields is rejected with the error
\* of the first malformed one in the order create_token mint, mintAuthority;
\* mint_token mint, destination, authority; send_sol from, to; send_token
\* mint, owner, destination; verify_message pubkey, then signature (a
\* malformed signature is reported only when the pubkey parses); and a
\* same-address error means every address of the request parsed.
C16_FirstMalformedField ==
  /\ \A i \in DOMAIN AddressFields :
       (/\ ~WellFormed(AddressFields[i].text)
        /\ \A j \in 1..(i - 1) : WellFormed(AddressFields[j].text))
         => Rejected(AddressFields[i].error)
  /\ (/\ last.op = "verify_message"
      /\ \A text \in RequiredTexts : ~trim_is_empty(text)
      /\ WellFormed(last.req.pubkey)
      /\ ~DecodesTo(base64_decode(last.req.signature), SIGNATURE_BYTES))
       => Rejected("Invalid signature format")
  /\ (/\ last.op \in {"send_sol", "send_token"}
      /\ ~Succeeded
      /\ last.resp.error \in SAME_ADDRESS)
       => \A i \in DOMAIN AddressFields : WellFormed(AddressFields[i].text)

C16_Witness ==
  /\ last.op = "verify_message"
  /\ ~trim_is_empty(last.req.message)
  /\ last.req.pubkey = Malformed
  /\ last.req.signature = ShortSignature
  /\ Rejected("Invalid public key")

====
